---- MODULE Spec2Model ----
(***************************************************************************)
(* Annotation export engine of labelme/app.py (MainWindow.onExportPixelMap,*)
(* onExportVOC, onExportCOCO and their helpers), as a state machine.       *)
(*                                                                         *)
(* One behaviour is one export call on a dataset, possibly followed by the *)
(* same call being issued again on the unchanged dataset (Rerun).          *)
(***************************************************************************)
EXTENDS Integers, Sequences, FiniteSets, TLC

\* Bound: total number of annotations stored in the label files of the dataset.
MaxAnn == 2

VARIABLES
  labelFiles,     \* the label file of every image, on disk
  output_dir,     \* self.output_dir
  fs,             \* the entries under the output root
  pc,             \* position of the export call
  kind,           \* which export was called: "PixelMap", "VOC", "COCO"
  imageList,      \* local imageList: the export scope
  annotations,    \* local annotations: result of getAllAnnotations
  AnnotationType, \* local AnnotationType of onExportVOC
  classes,        \* local classes
  n,              \* position of the running loop (1-based)
  w,              \* number of artifacts already written for image n
  data,           \* local data of onExportCOCO
  json,           \* content of COCO/annotations.json on disk
  result,         \* what the call returned or raised
  masks,          \* local masks of onExportCOCO (dict, in insertion order)
  segmentations,  \* local segmentations of onExportCOCO
  rasters,        \* locals cls, ins of the pixel-map and segmentation loops
  xml,            \* content of the documents under VOC/Annotations on disk
  png,            \* content of the label images under PixelMap on disk
  clock,          \* the time uuid1 reads: 0 in the first call, 1 in later ones
  prev,           \* history: what the previous call left on disk
  prevClasses,    \* history: the registry the previous call built
  fsAtCall        \* history: the output root as the call found it

vars == << labelFiles, output_dir, fs, pc, kind, imageList, annotations,
           AnnotationType, classes, n, w, data, json, result, masks,
           segmentations, rasters, xml, png, clock, prev, prevClasses,
           fsAtCall >>

-----------------------------------------------------------------------------
(* Inputs *)

\* Image files of the loaded directory (base names), and self.imageList.
Images == {"a", "b"}
FileList == <<"a", "b">>

\* Annotation records the label files are drawn from.  group_id "None" is
\* Python's None; points are (x, y) pairs.  On an image of 4 x 4 pixels the
\* two car shapes overlap and belong to one group, the dog polygons overlap
\* the car shapes, and the __ignore__ circle overlaps all of them.
AnnPool ==
  { [label |-> "car",          shape_type |-> "rectangle", group_id |-> "7",
     points |-> << <<2, 1>>, <<0, 0>> >>],
    [label |-> "car",          shape_type |-> "polygon",   group_id |-> "7",
     points |-> << <<0, 0>>, <<2, 0>>, <<2, 3>>, <<0, 3>> >>],
    [label |-> "dog",          shape_type |-> "polygon",   group_id |-> "None",
     points |-> << <<1, 1>>, <<4, 1>>, <<4, 4>>, <<1, 4>> >>],
    [label |-> "__ignore__",   shape_type |-> "circle",    group_id |-> "None",
     points |-> << <<2, 2>>, <<3, 2>> >>],
    [label |-> "_background_", shape_type |-> "rectangle", group_id |-> "None",
     points |-> << <<0, 0>>, <<3, 3>> >>] }

SeqsUpTo(len) == UNION { [1..k -> AnnPool] : k \in 0..len }

\* Bound: height and width, in pixels, of the images of the dataset.
ImgSize == 4

\* A label file on disk: either LabelFile(label_file) raises LabelFileError
\* (readable = FALSE) or it yields the stored annotation list.  shape is
\* img.shape[:2] of the image the file stands for, (height, width).
LabelFileContents ==
  { [readable |-> FALSE, annotations |-> <<>>, shape |-> <<ImgSize, ImgSize>>] }
    \cup { [readable |-> TRUE, annotations |-> s,
            shape |-> <<ImgSize, ImgSize>>] : s \in SeqsUpTo(MaxAnn) }

RECURSIVE TotalAnnotations(_, _)
TotalAnnotations(f, S) ==
  IF S = {} THEN 0
  ELSE LET x == CHOOSE y \in S : TRUE
       IN  Len(f[x].annotations) + TotalAnnotations(f, S \ {x})

-----------------------------------------------------------------------------
(* The output tree *)

NoDir == ""
OutputRoot == "out"
Formats == {"PixelMap", "VOC", "COCO"}

\* An entry of the output root.  old = TRUE: the entry existed before the
\* current export call began.
Entry(fmt, sub, base, ext, old) ==
  [fmt |-> fmt, sub |-> sub, base |-> base, ext |-> ext, old |-> old]

Dir(fmt, sub) == Entry(fmt, sub, "", "dir", FALSE)

\* Output left behind by earlier exports of every format.
Leftover ==
  UNION { { Entry(f, "", "", "dir", TRUE), Entry(f, "", "leftover", "png", TRUE) }
          : f \in Formats }

\* osp.isdir(osp.join(self.output_dir, fmt))
isdir(tree, fmt) ==
  \E e \in tree : e.fmt = fmt /\ e.sub = "" /\ e.ext = "dir"

\* Mutation: the whole output root is removed, not the subtree of the format.
rmtreeRoot(tree, fmt) == {}

\* shutil.rmtree(osp.join(self.output_dir, fmt))
rmtree(tree, fmt) == { e \in tree : e.fmt # fmt }

\* os.makedirs(osp.join(self.output_dir, fmt, sub)) for every sub of subs
makedirs(tree, fmt, subs) == tree \cup { Dir(fmt, s) : s \in subs }

\* imsave / lblsave / np.save / open(..., "w"): create or replace one file
SamePath(e, fmt, sub, base, ext) ==
  e.fmt = fmt /\ e.sub = sub /\ e.base = base /\ e.ext = ext

save(tree, fmt, sub, base, ext) ==
  { e \in tree : ~SamePath(e, fmt, sub, base, ext) }
    \cup { Entry(fmt, sub, base, ext, FALSE) }

-----------------------------------------------------------------------------
(* The class registry: an insertion-ordered dict, as a sequence of items *)

Item(name, id) == [name |-> name, id |-> id]

\* classes = {"__ignore__":-1, "_background_":0, }
SeedClasses == << Item("__ignore__", -1), Item("_background_", 0) >>

\* list(classes.keys())
keys(cls) == [k \in 1..Len(cls) |-> cls[k].name]

InList(x, s) == \E k \in 1..Len(s) : s[k] = x

\* classes[name]
lookup(cls, name) ==
  cls[CHOOSE k \in 1..Len(cls) : cls[k].name = name].id

\* Mutation: the id is the dict's length, one too many.
NewIdOffByOne(cls) == Len(cls)

\* Mutation: ids go on from where the previous export call stopped.
NewIdContinuing(cls) == Len(cls) - 1 + Len(prevClasses)

\* The id given to a label that enters the registry: len(classes)-1
NewId(cls) == Len(cls) - 1

\* Mutation: the membership test is dropped, so a label met again is given
\* a new id.
AddClassReassign(cls, class_name) ==
  IF InList(class_name, keys(cls))
  THEN [k \in 1..Len(cls) |->
          IF cls[k].name = class_name
          THEN Item(class_name, Len(cls) - 1) ELSE cls[k]]
  ELSE Append(cls, Item(class_name, Len(cls) - 1))

\* The body of "for annotation in annotations" of the registry build.
AddClass(cls, class_name) ==
  IF ~InList(class_name, keys(cls) \o <<"__ignore__", "_background_">>)
  THEN Append(cls, Item(class_name, NewId(cls)))
  ELSE cls

-----------------------------------------------------------------------------
(* Geometry: corners, masks and label rasters.  A mask is the set of the     *)
(* pixels <<x, y>> that are set; a raster is a function on the pixels.       *)

min2(a, b) == IF a <= b THEN a ELSE b
max2(a, b) == IF a <= b THEN b ELSE a

\* sorted([a, b])
sorted(a, b) == IF a <= b THEN <<a, b>> ELSE <<b, a>>

\* The pixels of an image of the given (height, width).
Pixels(shape) == (0..(shape[2] - 1)) \X (0..(shape[1] - 1))

\* The pixels of the image inside the box x1..x2, y1..y2 (both inclusive).
Box(shape, x1, y1, x2, y2) ==
  (max2(x1, 0)..min2(x2, shape[2] - 1)) \X (max2(y1, 0)..min2(y2, shape[1] - 1))

Xs(points) == { points[k][1] : k \in 1..Len(points) }
Ys(points) == { points[k][2] : k \in 1..Len(points) }
Least(S) == CHOOSE v \in S : \A u \in S : v <= u
Greatest(S) == CHOOSE v \in S : \A u \in S : u <= v

\* Rasterizer, rectangle: the inclusive axis-aligned box between the two
\* corners, whichever order they come in.
RectangleMask(shape, points) ==
  Box(shape, Least(Xs(points)), Least(Ys(points)),
      Greatest(Xs(points)), Greatest(Ys(points)))

\* Rasterizer, circle: the disk around the first point whose radius is the
\* distance to the second, distance(pixel, center) <= radius.
CircleMask(shape, points) ==
  LET cx == points[1][1]
      cy == points[1][2]
      dx == points[2][1] - cx
      dy == points[2][2] - cy
      rr == dx * dx + dy * dy
  IN  { px \in Box(shape, cx - rr, cy - rr, cx + rr, cy + rr) :
          (px[1] - cx) * (px[1] - cx) + (px[2] - cy) * (px[2] - cy) <= rr }

\* The edge from a to b crosses the ray that leaves c to the right.  All
\* three are in half-pixel units, so that a pixel center never lies on the
\* height of a vertex.
Crosses(c, a, b) ==
  /\ (a[2] > c[2]) # (b[2] > c[2])
  /\ LET dy == b[2] - a[2]
         lhs == (c[1] - a[1]) * dy
         rhs == (c[2] - a[2]) * (b[1] - a[1])
     IN  IF dy > 0 THEN lhs < rhs ELSE lhs > rhs

\* The center of the pixel lies inside the closed ring of points (even-odd).
Inside(px, points) ==
  LET c == << 2 * px[1] + 1, 2 * px[2] + 1 >>
      m == Len(points)
      v(k) == << 2 * points[k][1], 2 * points[k][2] >>
  IN  Cardinality({ k \in 1..m : Crosses(c, v(k), v((k % m) + 1)) }) % 2 = 1

\* Rasterizer, polygon and linestrip: scan-line fill of the closed ring, the
\* pixels whose center is inside.
PolygonMask(shape, points) ==
  { px \in Box(shape, Least(Xs(points)), Least(Ys(points)),
               Greatest(Xs(points)), Greatest(Ys(points))) :
      Inside(px, points) }

\* Rasterizer, point: the single pixel of the point.
PointMask(shape, points) ==
  Box(shape, points[1][1], points[1][2], points[1][1], points[1][2])

abs(v) == IF v < 0 THEN 0 - v ELSE v

\* Rasterizer, line: the segment between the two points traced one pixel
\* wide, the pixels between the end points that lie within half a step of
\* the segment.
LineMask(shape, points) ==
  LET x1 == points[1][1]
      y1 == points[1][2]
      dx == points[2][1] - x1
      dy == points[2][2] - y1
  IN  { px \in Box(shape, min2(x1, x1 + dx), min2(y1, y1 + dy),
                   max2(x1, x1 + dx), max2(y1, y1 + dy)) :
          2 * abs(dx * (px[2] - y1) - dy * (px[1] - x1))
            <= max2(abs(dx), abs(dy)) }

\* utils.shape_to_mask(img.shape[:2], points, shape_type)
shape_to_mask(shape, points, shape_type) ==
  IF shape_type = "rectangle" THEN RectangleMask(shape, points)
  ELSE IF shape_type = "circle" THEN CircleMask(shape, points)
  ELSE IF shape_type = "point" THEN PointMask(shape, points)
  ELSE IF shape_type = "line" THEN LineMask(shape, points)
  ELSE PolygonMask(shape, points)

-----------------------------------------------------------------------------
NoData == [images |-> <<>>, annotations |-> <<>>, categories |-> <<>>]
NoAnnotations == [failed |-> FALSE, items |-> <<>>]
NoPrevious == [result |-> "", json |-> NoData, png |-> <<>>]
NoRasters == [cls |-> <<>>, ins |-> <<>>, imagename |-> ""]

\* The datasets of up to MaxAnn annotations drawn from AnnPool.
Datasets ==
  { f \in [Images -> LabelFileContents] :
      TotalAnnotations(f, Images) <= MaxAnn }

\* Corner coordinates of the rectangles of RectangleDatasets.
Coords == {1, 10, 50}

\* The datasets in which image a holds one rectangle whose corners are drawn
\* from Coords, in either order on either axis, and image b holds nothing
\* or one shape of AnnPool that is no rectangle.
RectangleDatasets ==
  { [a |-> [readable |-> TRUE,
            annotations |->
              << [label |-> "car", shape_type |-> "rectangle",
                  group_id |-> "None",
                  points |-> << <<c[1], c[2]>>, <<c[3], c[4]>> >>] >>,
            shape |-> <<ImgSize, ImgSize>>],
     b |-> [readable |-> TRUE, annotations |-> s,
            shape |-> <<ImgSize, ImgSize>>]] :
      c \in Coords \X Coords \X Coords \X Coords,
      s \in { <<>> } \cup { <<r>> : r \in { q \in AnnPool :
                                             q.shape_type # "rectangle" } } }

\* Shapes without area: a line and a point.
ThinShapes ==
  { [label |-> "car", shape_type |-> "line",  group_id |-> "None",
     points |-> << <<0, 0>>, <<3, 2>> >>],
    [label |-> "car", shape_type |-> "point", group_id |-> "None",
     points |-> << <<1, 2>> >>] }

\* The datasets in which image a holds one or two shapes of ThinShapes and
\* image b holds nothing or one shape of AnnPool.
ThinDatasets ==
  { [a |-> [readable |-> TRUE, annotations |-> t,
            shape |-> <<ImgSize, ImgSize>>],
     b |-> [readable |-> TRUE, annotations |-> s,
            shape |-> <<ImgSize, ImgSize>>]] :
      t \in { <<r>> : r \in ThinShapes }
               \cup { <<r, q>> : r \in ThinShapes, q \in AnnPool },
      s \in { <<>> } \cup { <<r>> : r \in AnnPool } }

\* Bound: height and width of the image of CarDatasets.
CarImgSize == 100

\* The datasets in which image a, of CarImgSize x CarImgSize pixels, holds the
\* single rectangle labelled car with corners (10,10), (50,50), and image b
\* holds nothing or one shape of AnnPool.
CarDatasets ==
  { [a |-> [readable |-> TRUE,
            annotations |->
              << [label |-> "car", shape_type |-> "rectangle",
                  group_id |-> "None",
                  points |-> << <<10, 10>>, <<50, 50>> >>] >>,
            shape |-> <<CarImgSize, CarImgSize>>],
     b |-> [readable |-> TRUE, annotations |-> s,
            shape |-> <<ImgSize, ImgSize>>]] :
      s \in { <<>> } \cup { <<r>> : r \in AnnPool } }

\* The state after construction, the label files apart.
Constructed ==
  /\ output_dir = NoDir
  /\ fs \in { {}, Leftover }
  /\ pc = "idle"
  /\ kind = ""
  /\ imageList = <<>>
  /\ annotations = NoAnnotations
  /\ AnnotationType = ""
  /\ classes = <<>>
  /\ n = 0
  /\ w = 0
  /\ data = NoData
  /\ json = NoData
  /\ result = "running"
  /\ masks = <<>>
  /\ segmentations = <<>>
  /\ rasters = NoRasters
  /\ xml = <<>>
  /\ png = <<>>
  /\ clock = 0
  /\ prev = NoPrevious
  /\ prevClasses = <<>>
  /\ fsAtCall = fs

Init == labelFiles \in Datasets /\ Constructed

InitRectangles == labelFiles \in RectangleDatasets /\ Constructed

InitCar == labelFiles \in CarDatasets /\ Constructed

InitThin == labelFiles \in ThinDatasets /\ Constructed

-----------------------------------------------------------------------------
(* Entry of an export slot: output directory and export scope *)

\* Lines 1988-2002 (and the same lines of the other two slots): ask for an
\* output directory when none is set, return False when still none; the
\* scope is [self.imagePath], or self.imageList when the user answers Ok.
Begin(k) ==
  /\ pc = "idle"
  /\ kind' = k
  /\ \E chosen \in {NoDir, OutputRoot} :
       /\ output_dir' = IF output_dir = NoDir THEN chosen ELSE output_dir
       /\ IF output_dir' = NoDir
          THEN /\ result' = "False"
               /\ pc' = "done"
               /\ UNCHANGED imageList
          ELSE /\ \E imagePath \in Images, answer \in {"Ok", "Cancel"} :
                    imageList' = IF answer = "Ok" THEN FileList
                                 ELSE <<imagePath>>
               /\ pc' = "getAllAnnotations"
               /\ UNCHANGED result
  /\ UNCHANGED << labelFiles, png, clock, prev,
                  masks, segmentations, rasters, xml,
                  fs, annotations, AnnotationType, classes, n, w,
                  data, json, prevClasses, fsAtCall >>

onExportPixelMap == Begin("PixelMap")
onExportVOC == Begin("VOC")
onExportCOCO == Begin("COCO")

\* Mutation: only the annotations of the first image of the scope are read.
ConcatenatedFirst(files, list) ==
  IF list = <<>> THEN <<>> ELSE files[Head(list)].annotations

\* annotations of the images of list up to the first unreadable label file
RECURSIVE Concatenated(_, _)
Concatenated(files, list) ==
  IF list = <<>> THEN <<>>
  ELSE files[Head(list)].annotations \o Concatenated(files, Tail(list))

AllReadable(files, list) ==
  \A k \in 1..Len(list) : files[list[k]].readable

\* Mutation: an unreadable label file is skipped (continue for return False).
ReadAllSkipping(files, list) ==
  [failed |-> FALSE,
   items |-> Concatenated(
               [x \in DOMAIN files |->
                  IF files[x].readable THEN files[x]
                  ELSE [files[x] EXCEPT !.readable = TRUE]], list)]

\* What getAllAnnotations returns: False at the first label file that raises
\* LabelFileError, else the concatenation in image-list order.
ReadAll(files, list) ==
  IF AllReadable(files, list)
  THEN [failed |-> FALSE, items |-> Concatenated(files, list)]
  ELSE [failed |-> TRUE, items |-> <<>>]

\* annotations = self.getAllAnnotations(imageList)
getAllAnnotations ==
  /\ pc = "getAllAnnotations"
  /\ annotations' = ReadAll(labelFiles, imageList)
  /\ pc' = "select"
  /\ UNCHANGED << labelFiles, png, clock, prev,
                  masks, segmentations, rasters, xml,
                  output_dir, fs, kind, imageList, AnnotationType,
                  classes, n, w, data, json, result, prevClasses, fsAtCall >>

-----------------------------------------------------------------------------
(* Format selection and refusal *)

\* Mutation: an empty scope is not taken for a scope of rectangles.
AllRectanglesNonEmpty(items) ==
  /\ Len(items) > 0
  /\ \A k \in 1..Len(items) : items[k].shape_type = "rectangle"

\* all(annotation["shape_type"]=="rectangle" for annotation in annotations)
AllRectangles(items) ==
  \A k \in 1..Len(items) : items[k].shape_type = "rectangle"

\* any(annotation["shape_type"]=="polygon" for annotation in annotations)
AnyPolygon(items) ==
  \E k \in 1..Len(items) : items[k].shape_type = "polygon"

\* Mutation: a scope without annotations selects no mode.
SelectNoneForEmpty(items) ==
  IF items = <<>> THEN ""
  ELSE IF AllRectangles(items) THEN "bbox_detection"
  ELSE IF AnyPolygon(items) THEN "segmenation"
  ELSE ""

\* Mutation: any(...) where the code says all(...).
SelectAnyRectangle(items) ==
  IF \E k \in 1..Len(items) : items[k].shape_type = "rectangle"
  THEN "bbox_detection"
  ELSE IF AnyPolygon(items) THEN "segmenation"
  ELSE ""

\* The if/elif of onExportVOC that sets AnnotationType.
SelectAnnotationType(items) ==
  IF AllRectangles(items) THEN "bbox_detection"
  ELSE IF AnyPolygon(items) THEN "segmenation"
  ELSE ""

\* What onExportPixelMap and onExportCOCO return when every annotation is a
\* rectangle.
RefusalResult == "False"

\* Mutation: the subtree of the format is removed before the scope is tested.
MaskExportSelectLate(k) ==
  /\ pc = "select"
  /\ kind = k
  /\ fs' = rmtree(fs, k)
  /\ IF annotations.failed
     THEN /\ result' = "TypeError"
          /\ pc' = "done"
          /\ UNCHANGED << classes, n >>
     ELSE IF AllRectangles(annotations.items)
     THEN /\ result' = "False"
          /\ pc' = "done"
          /\ UNCHANGED << classes, n >>
     ELSE /\ classes' = SeedClasses
          /\ n' = 1
          /\ pc' = "registry"
          /\ UNCHANGED result
  /\ UNCHANGED << labelFiles, png, clock, prev, masks, segmentations,
                  rasters, xml, output_dir, kind, imageList, annotations,
                  AnnotationType, w, data, json, prevClasses, fsAtCall >>

\* Lines 2004-2011 of onExportPixelMap and 2247-2253 of onExportCOCO.
\* Iterating annotations = False raises TypeError; a scope of rectangles
\* only returns False; otherwise the registry build starts.
MaskExportSelect(k) ==
  /\ pc = "select"
  /\ kind = k
  /\ IF annotations.failed
     THEN /\ result' = "TypeError"
          /\ pc' = "done"
          /\ UNCHANGED << classes, n >>
     ELSE IF AllRectangles(annotations.items)
     THEN /\ result' = RefusalResult
          /\ pc' = "done"
          /\ UNCHANGED << classes, n >>
     ELSE /\ classes' = SeedClasses
          /\ n' = 1
          /\ pc' = "registry"
          /\ UNCHANGED result
  /\ UNCHANGED << labelFiles, png, clock, prev,
                  masks, segmentations, rasters, xml,
                  output_dir, fs, kind, imageList, annotations,
                  AnnotationType, w, data, json, prevClasses, fsAtCall >>

PixelMapSelect == MaskExportSelect("PixelMap")
COCOSelect == MaskExportSelect("COCO")

\* Lines 2205-2215 of onExportVOC.
VOCSelect ==
  /\ pc = "select"
  /\ kind = "VOC"
  /\ IF annotations.failed
     THEN /\ result' = "TypeError"
          /\ pc' = "done"
          /\ UNCHANGED << AnnotationType, classes, n >>
     ELSE /\ AnnotationType' = SelectAnnotationType(annotations.items)
          /\ classes' = SeedClasses
          /\ n' = 1
          /\ pc' = "registry"
          /\ UNCHANGED result
  /\ UNCHANGED << labelFiles, png, clock, prev,
                  masks, segmentations, rasters, xml,
                  output_dir, fs, kind, imageList, annotations,
                  w, data, json, prevClasses, fsAtCall >>

\* One iteration of the registry loop (the same three lines in each slot).
RegistryStep ==
  /\ pc = "registry"
  /\ n <= Len(annotations.items)
  /\ classes' = AddClass(classes, annotations.items[n].label)
  /\ n' = n + 1
  /\ UNCHANGED << labelFiles, png, clock, prev,
                  masks, segmentations, rasters, xml,
                  output_dir, fs, pc, kind, imageList,
                  annotations, AnnotationType, w, data, json, result,
                  prevClasses, fsAtCall >>

RegistryBuilt == pc = "registry" /\ n > Len(annotations.items)

\* class_names = list(classes.keys()); del class_names[0]
class_names(cls) == Tail(keys(cls))

-----------------------------------------------------------------------------
(* Directory reset *)

\* Mutation: the existing tree is kept.
ResetTreeSkip(tree, fmt) == tree

\* if osp.isdir(d): shutil.rmtree(d)
ResetTree(tree, fmt) == IF isdir(tree, fmt) THEN rmtree(tree, fmt) ELSE tree

\* Lines 2017-2023 of onExportPixelMap.
PixelMapResetDir ==
  /\ RegistryBuilt
  /\ kind = "PixelMap"
  /\ fs' = makedirs(ResetTree(fs, "PixelMap"), "PixelMap", {""})
  /\ png' = SelectSeq(png, LAMBDA f :
              \E e \in fs' : SamePath(e, "PixelMap", "", f.filename, "png"))
  /\ n' = 1
  /\ w' = 0
  /\ pc' = "images"
  /\ UNCHANGED << labelFiles, clock, prev, masks, segmentations, rasters, xml,
                  output_dir, kind, imageList, annotations,
                  AnnotationType, classes, data, json, result,
                  prevClasses, fsAtCall >>

\* The documents of xml whose file the tree still holds.
Surviving(docs, tree) ==
  SelectSeq(docs, LAMBDA d :
    \E e \in tree : SamePath(e, "VOC", "Annotations", d.filename, "xml"))

\* Lines 2221-2222 of onExportVOC.
VOCResetDir ==
  /\ RegistryBuilt
  /\ kind = "VOC"
  /\ fs' = ResetTree(fs, "VOC")
  /\ xml' = Surviving(xml, fs')
  /\ pc' = "dispatch"
  /\ UNCHANGED << labelFiles, png, clock, prev,
                  masks, segmentations, rasters, output_dir, kind,
                  imageList, annotations, AnnotationType, classes, n, w, data,
                  json, result, prevClasses, fsAtCall >>

\* Lines 2259-2292 of onExportCOCO.
COCOResetDir ==
  /\ RegistryBuilt
  /\ kind = "COCO"
  /\ fs' = makedirs(ResetTree(fs, "COCO"), "COCO",
                    {"", "JPEGImages", "Visualization"})
  /\ json' = NoData
  /\ data' = NoData
  /\ n' = 1
  /\ w' = 0
  /\ pc' = "images"
  /\ UNCHANGED << labelFiles, png, clock, prev,
                  masks, segmentations, rasters, xml,
                  output_dir, kind, imageList, annotations,
                  AnnotationType, classes, result, prevClasses, fsAtCall >>

-----------------------------------------------------------------------------
(* Instances: the shapes of an image that stand for one object *)

\* Mutation: every shape without a group is given the same key.
InstanceOfShared(annotation, k) ==
  [label |-> annotation.label, group_id |-> annotation.group_id,
   uuid |-> [time |-> 0, seq |-> 0]]

\* instance = (label, group_id), group_id = uuid.uuid1() when it is None.  The
\* fresh key of a shape is the time of the call and the shape's position in
\* the image's annotation list.
InstanceOf(annotation, k) ==
  [label |-> annotation.label, group_id |-> annotation.group_id,
   uuid |-> IF annotation.group_id = "None"
            THEN [time |-> clock, seq |-> k]
            ELSE [time |-> 0, seq |-> 0]]

\* The keys of masks after the first k annotations, in insertion order.
RECURSIVE MaskKeys(_, _)
MaskKeys(anns, k) ==
  IF k = 0 THEN <<>>
  ELSE LET before == MaskKeys(anns, k - 1)
           instance == InstanceOf(anns[k], k)
       IN  IF InList(instance, before) THEN before
           ELSE Append(before, instance)

-----------------------------------------------------------------------------
(* Label rasters: class ids and instance ids per pixel *)

\* The position of x in the sequence s that holds it.
IndexOf(x, s) == CHOOSE i \in 1..Len(s) : s[i] = x

\* Mutation: a pixel keeps the first shape that was painted on it.
PaintUnder(raster, mask, value) ==
  [px \in DOMAIN raster |->
     IF px \in mask /\ raster[px] = 0 THEN value ELSE raster[px]]

\* raster[mask] = value: the shape is painted over what the raster holds.
Paint(raster, mask, value) ==
  [px \in DOMAIN raster |-> IF px \in mask THEN value ELSE raster[px]]

\* cls and ins after the first k annotations were painted in stored order:
\* the class id of the shape's label, and the number of its instance among
\* the instances met so far.
RECURSIVE Painted(_, _, _, _)
Painted(shape, anns, registry, k) ==
  IF k = 0
  THEN [cls |-> [px \in Pixels(shape) |-> 0],
        ins |-> [px \in Pixels(shape) |-> 0]]
  ELSE LET before == Painted(shape, anns, registry, k - 1)
           mask == shape_to_mask(shape, anns[k].points, anns[k].shape_type)
           cls_id == lookup(registry, anns[k].label)
           ins_id == IndexOf(InstanceOf(anns[k], k), MaskKeys(anns, k))
       IN  [cls |-> Paint(before.cls, mask, cls_id),
            ins |-> Paint(before.ins, mask, ins_id)]

\* cls, ins = utils.annotations_to_label(img_shape, annotations, classes)
annotations_to_label(shape, anns, registry) ==
  Painted(shape, anns, registry, Len(anns))

\* ins[cls == -1] = 0
ZeroIgnored(r) ==
  [r EXCEPT !.ins = [px \in DOMAIN r.ins |->
                       IF r.cls[px] = -1 THEN 0 ELSE r.ins[px]]]

\* The two rasters of image imagename as the loops hold them after
\* "ins[cls == -1] = 0"; imagename is a history field.
LabelRasters(imagename) ==
  LET r == ZeroIgnored(annotations_to_label(labelFiles[imagename].shape,
                         labelFiles[imagename].annotations, classes))
  IN  [cls |-> r.cls, ins |-> r.ins, imagename |-> imagename]

-----------------------------------------------------------------------------
(* PixelMap: the per-image loop *)

\* for imagename in imageList: is there an image left
ImageLeft == pc = "images" /\ n <= Len(imageList)

\* utils.lblsave(out_img_file, cls): the file holds the class raster.
WriteLabel(files, imagename, raster) ==
  Append(SelectSeq(files, LAMBDA f : f.filename # imagename),
         [filename |-> imagename, cls |-> raster])

\* Lines 2024-2042: one image of onExportPixelMap; cls is what lblsave writes.
PixelMapImage ==
  /\ ImageLeft
  /\ kind = "PixelMap"
  /\ rasters' = LabelRasters(imageList[n])
  /\ fs' = save(fs, "PixelMap", "", imageList[n], "png")
  /\ png' = WriteLabel(png, imageList[n], rasters'.cls)
  /\ n' = n + 1
  /\ UNCHANGED << labelFiles, clock, prev, masks,
                  segmentations, xml, output_dir, pc, kind,
                  imageList, annotations, AnnotationType, classes, w, data,
                  json, result, prevClasses, fsAtCall >>

-----------------------------------------------------------------------------
(* VOC: dispatch on AnnotationType and the two per-image loops *)

File(sub, ext) == [sub |-> sub, ext |-> ext]

\* The files exportDetectionVOC writes for one image, in the order written.
DetectionArtifacts ==
  << File("JPEGImages", "jpg"),
     File("AnnotationsVisualization", "jpg"),
     File("Annotations", "xml") >>

\* The files exportSegmentationVOC writes for one image, in the order written.
SegmentationArtifacts ==
  << File("JPEGImages", "jpg"),
     File("SegmentationClassPNG", "png"),
     File("SegmentationClass", "npy"),
     File("SegmentationClassVisualization", "jpg"),
     File("SegmentationObjectPNG", "png"),
     File("SegmentationObject", "npy"),
     File("SegmentationObjectVisualization", "jpg") >>

SubDirs(artifacts) == { artifacts[k].sub : k \in 1..Len(artifacts) }

\* Lines 2224-2225 and 2045-2048: detection mode is entered.
exportDetectionVOC ==
  /\ pc = "dispatch"
  /\ AnnotationType = "bbox_detection"
  /\ fs' = makedirs(fs, "VOC", {""} \cup SubDirs(DetectionArtifacts))
  /\ n' = 1
  /\ w' = 0
  /\ pc' = "images"
  /\ UNCHANGED << labelFiles, png, clock, prev,
                  masks, segmentations, rasters, xml,
                  output_dir, kind, imageList, annotations,
                  AnnotationType, classes, data, json, result,
                  prevClasses, fsAtCall >>

\* Lines 2226-2227 and 2123-2133: segmentation mode is entered.
exportSegmentationVOC ==
  /\ pc = "dispatch"
  /\ AnnotationType = "segmenation"
  /\ fs' = makedirs(fs, "VOC", {""} \cup SubDirs(SegmentationArtifacts))
  /\ n' = 1
  /\ w' = 0
  /\ pc' = "images"
  /\ UNCHANGED << labelFiles, png, clock, prev,
                  masks, segmentations, rasters, xml,
                  output_dir, kind, imageList, annotations,
                  AnnotationType, classes, data, json, result,
                  prevClasses, fsAtCall >>

\* What onExportVOC returns when neither mode was selected: it falls off its
\* end, as a completed export does.
NoModeResult == "None"

\* Lines 2224-2227 with AnnotationType == "": neither branch is taken.
VOCNoMode ==
  /\ pc = "dispatch"
  /\ AnnotationType = ""
  /\ result' = NoModeResult
  /\ pc' = "done"
  /\ UNCHANGED << labelFiles, png, clock, prev,
                  masks, segmentations, rasters, xml,
                  output_dir, fs, kind, imageList, annotations,
                  AnnotationType, classes, n, w, data, json,
                  prevClasses, fsAtCall >>

\* Mutation: the loops are nested the other way round, every image's first
\* file before any image's second.
WriteArtifactByKind(artifacts) ==
  /\ fs' = save(fs, "VOC", artifacts[w + 1].sub, imageList[n],
                artifacts[w + 1].ext)
  /\ IF n < Len(imageList)
     THEN n' = n + 1 /\ w' = w
     ELSE IF w + 1 = Len(artifacts)
     THEN n' = n + 1 /\ w' = 0
     ELSE n' = 1 /\ w' = w + 1

\* The next file of image n is written; after the last one the loop moves on.
WriteArtifact(artifacts) ==
  /\ fs' = save(fs, "VOC", artifacts[w + 1].sub, imageList[n],
                artifacts[w + 1].ext)
  /\ IF w + 1 = Len(artifacts)
     THEN n' = n + 1 /\ w' = 0
     ELSE n' = n /\ w' = w + 1

\* str(v) of a number read from the label file
str(v) == ToString(v)

\* Mutation: the corners are written in the order they were stored in.
bndboxAsStored(points) ==
  [xmin |-> str(points[1][1]), ymin |-> str(points[1][2]),
   xmax |-> str(points[2][1]), ymax |-> str(points[2][2])]

\* Lines 2086-2089 and 2102-2107: maker.bndbox(...) of the sorted corners.
bndbox(points) ==
  LET xs == sorted(points[1][1], points[2][1])
      ys == sorted(points[1][2], points[2][2])
  IN  [xmin |-> str(xs[1]), ymin |-> str(ys[1]),
       xmax |-> str(xs[2]), ymax |-> str(ys[2])]

\* Mutation: an annotation whose label already has an object adds none.
ObjectsPerLabel(anns) ==
  LET firsts == SelectSeq([k \in 1..Len(anns) |-> k], LAMBDA k :
                  \A q \in 1..(k - 1) : anns[q].label # anns[k].label)
  IN  [i \in 1..Len(firsts) |->
         [name |-> anns[firsts[i]].label,
          bndbox |-> bndbox(anns[firsts[i]].points)]]

\* Lines 2082-2108: xml.append(maker.object(...)) for every annotation of
\* the image, in stored order.
Objects(anns) ==
  [k \in 1..Len(anns) |->
     [name |-> anns[k].label, bndbox |-> bndbox(anns[k].points)]]

\* Lines 2064-2108: the document of one image; filename is the image it is
\* for (maker.filename(base + ".jpg")).
Document(imagename) ==
  [filename |-> imagename,
   objects |-> Objects(labelFiles[imagename].annotations)]

\* Lines 2119-2120: the document is written, replacing the file's content.
WriteDocument(docs, doc) ==
  Append(SelectSeq(docs, LAMBDA d : d.filename # doc.filename), doc)

\* Lines 2050-2120: the body of the loop of exportDetectionVOC.
DetectionImage ==
  /\ ImageLeft
  /\ kind = "VOC"
  /\ AnnotationType = "bbox_detection"
  /\ WriteArtifact(DetectionArtifacts)
  /\ xml' = IF DetectionArtifacts[w + 1].ext = "xml"
            THEN WriteDocument(xml, Document(imageList[n]))
            ELSE xml
  /\ UNCHANGED << labelFiles, png, clock, prev,
                  masks, segmentations, rasters, output_dir, pc,
                  kind, imageList, annotations, AnnotationType, classes, data,
                  json, result, prevClasses, fsAtCall >>

\* Lines 2134-2185: the body of the loop of exportSegmentationVOC.  cls and
\* ins are computed once the copy of the image is saved.
SegmentationImage ==
  /\ ImageLeft
  /\ kind = "VOC"
  /\ AnnotationType = "segmenation"
  /\ WriteArtifact(SegmentationArtifacts)
  /\ rasters' = IF w = 0 THEN LabelRasters(imageList[n]) ELSE rasters
  /\ UNCHANGED << labelFiles, png, clock, prev,
                  masks, segmentations, xml, output_dir, pc, kind,
                  imageList, annotations, AnnotationType, classes, data, json,
                  result, prevClasses, fsAtCall >>

-----------------------------------------------------------------------------
(* COCO: the per-image loop *)

\* Mutation: image ids counted from 1.
ImageIdOneBased(k) == k

\* enumerate(imageList): the image_id of the n-th image
ImageId(k) == k - 1

\* A dict in insertion order: a sequence of [key, value] items.
HasKey(d, key) == \E i \in 1..Len(d) : d[i].key = key
Get(d, key) == d[CHOOSE i \in 1..Len(d) : d[i].key = key].value
Put(d, key, value) ==
  IF HasKey(d, key)
  THEN [i \in 1..Len(d) |->
          IF d[i].key = key THEN [key |-> key, value |-> value] ELSE d[i]]
  ELSE Append(d, [key |-> key, value |-> value])

\* masks after the first k annotations: masks[instance] | mask for a key
\* that is in the dict, else mask.
RECURSIVE MasksAfter(_, _, _)
MasksAfter(shape, anns, k) ==
  IF k = 0 THEN <<>>
  ELSE LET before == MasksAfter(shape, anns, k - 1)
           instance == InstanceOf(anns[k], k)
           mask == shape_to_mask(shape, anns[k].points, anns[k].shape_type)
       IN  IF HasKey(before, instance)
           THEN Put(before, instance, Get(before, instance) \cup mask)
           ELSE Put(before, instance, mask)

\* Mutation: the corners are taken in the order they were stored in.
RectanglePolygonAsStored(points) ==
  << points[1][1], points[1][2], points[2][1], points[1][2],
     points[2][1], points[2][2], points[1][1], points[2][2] >>

\* Lines 2340-2344: the rectangle as a polygon of 8 numbers.
RectanglePolygon(points) ==
  LET xs == sorted(points[1][1], points[2][1])
      ys == sorted(points[1][2], points[2][2])
  IN  << xs[1], ys[1], xs[2], ys[1], xs[2], ys[2], xs[1], ys[2] >>

\* np.asarray(points).flatten().tolist()
RECURSIVE Flatten(_)
Flatten(points) ==
  IF points = <<>> THEN <<>>
  ELSE << points[1][1], points[1][2] >> \o Flatten(Tail(points))

\* Lines 2339-2346: the points a shape adds to its instance's segmentation.
SegmentationPoints(annotation) ==
  IF annotation.shape_type = "rectangle"
  THEN RectanglePolygon(annotation.points)
  ELSE Flatten(annotation.points)

\* segmentations after the first k annotations (a defaultdict(list)).
RECURSIVE SegmentationsAfter(_, _)
SegmentationsAfter(anns, k) ==
  IF k = 0 THEN <<>>
  ELSE LET before == SegmentationsAfter(anns, k - 1)
           instance == InstanceOf(anns[k], k)
           sofar == IF HasKey(before, instance) THEN Get(before, instance)
                    ELSE <<>>
       IN  Put(before, instance, Append(sofar, SegmentationPoints(anns[k])))

\* float(cocomask.area(mask)): the number of pixels set
area(mask) == Cardinality(mask)

\* cocomask.toBbox(mask): [x, y, width, height] around the pixels set
toBbox(mask) ==
  IF mask = {} THEN << 0, 0, 0, 0 >>
  ELSE LET xs == { px[1] : px \in mask }
           ys == { px[2] : px \in mask }
       IN  << Least(xs), Least(ys),
              Greatest(xs) - Least(xs) + 1, Greatest(ys) - Least(ys) + 1 >>

\* Mutation: no instance is skipped.
RetainedAll(cls, anns) == MaskKeys(anns, Len(anns))

\* Mutation: masks is walked in the order of its keys, not in the order of
\* insertion, so the keys of a later call come out the other way round.
RetainedByKey(cls, anns) ==
  LET kept == SelectSeq(MaskKeys(anns, Len(anns)),
                        LAMBDA i : InList(i.label, class_names(cls)))
  IN  IF clock = 0 THEN kept
      ELSE [i \in 1..Len(kept) |-> kept[Len(kept) + 1 - i]]

\* The instances that pass "if class_name not in class_names: continue".
Retained(cls, anns) ==
  SelectSeq(MaskKeys(anns, Len(anns)),
            LAMBDA i : InList(i.label, class_names(cls)))

\* Mutation: the id counts the entries of the current image only.
AnnotationIdPerImage(list) ==
  Len(SelectSeq(list, LAMBDA a : a.image_id = ImageId(n)))

\* id=len(data["annotations"])
AnnotationId(list) == Len(list)

\* data["annotations"].append(...) for every retained instance.  imagename,
\* instance and mask are history fields: the image and the instance the entry
\* is for, and the mask that area and bbox were taken from.
RECURSIVE AppendAnnotations(_, _, _, _, _, _, _)
AppendAnnotations(list, instances, image_id, cls, imagename, msks, segs) ==
  IF instances = <<>> THEN list
  ELSE AppendAnnotations(
         Append(list, [id |-> AnnotationId(list),
                       image_id |-> image_id,
                       category_id |-> lookup(cls, Head(instances).label),
                       segmentation |-> Get(segs, Head(instances)),
                       area |-> area(Get(msks, Head(instances))),
                       bbox |-> toBbox(Get(msks, Head(instances))),
                       imagename |-> imagename,
                       instance |-> Head(instances),
                       mask |-> Get(msks, Head(instances))]),
         Tail(instances), image_id, cls, imagename, msks, segs)

\* Lines 2293-2371: the image is saved, its entry and the entries of its
\* instances are appended to data.
COCOImage ==
  /\ ImageLeft
  /\ kind = "COCO"
  /\ w = 0
  /\ LET imagename == imageList[n]
         anns == labelFiles[imagename].annotations
     IN  /\ fs' = save(fs, "COCO", "JPEGImages", imagename, "jpg")
         /\ masks' = MasksAfter(labelFiles[imagename].shape, anns, Len(anns))
         /\ segmentations' = SegmentationsAfter(anns, Len(anns))
         /\ data' =
              [data EXCEPT
                 !.images = Append(@, [id |-> ImageId(n),
                                       file_name |-> imagename]),
                 !.annotations = AppendAnnotations(@, Retained(classes, anns),
                                   ImageId(n), classes, imagename,
                                   masks', segmentations')]
  /\ w' = 1
  /\ UNCHANGED << labelFiles, png, clock, prev,
                  rasters, xml, output_dir, pc, kind, imageList,
                  annotations, AnnotationType, classes, n, json, result,
                  prevClasses, fsAtCall >>

\* Lines 2373-2388: labels, captions, masks = zip(*[...]) raises ValueError
\* when the image has no retained instance; else the visualization is saved.
COCOVisualization ==
  /\ ImageLeft
  /\ kind = "COCO"
  /\ w = 1
  /\ IF Retained(classes, labelFiles[imageList[n]].annotations) = <<>>
     THEN /\ result' = "ValueError"
          /\ pc' = "done"
          /\ UNCHANGED << fs, w >>
     ELSE /\ fs' = save(fs, "COCO", "Visualization", imageList[n], "jpg")
          /\ w' = 2
          /\ UNCHANGED << result, pc >>
  /\ UNCHANGED << labelFiles, png, clock, prev,
                  masks, segmentations, rasters, xml,
                  output_dir, kind, imageList, annotations,
                  AnnotationType, classes, n, data, json,
                  prevClasses, fsAtCall >>

\* Mutation: the document is written once, after the last image.
COCODumpAtEnd ==
  /\ ImageLeft
  /\ kind = "COCO"
  /\ w = 2
  /\ fs' = IF n = Len(imageList)
           THEN save(fs, "COCO", "", "annotations", "json") ELSE fs
  /\ json' = IF n = Len(imageList) THEN data ELSE json
  /\ n' = n + 1
  /\ w' = 0
  /\ UNCHANGED << labelFiles, png, clock, prev, masks, segmentations,
                  rasters, xml, output_dir, pc, kind, imageList, annotations,
                  AnnotationType, classes, data, result,
                  prevClasses, fsAtCall >>

\* Lines 2390-2391: json.dump(data, f) at the end of every iteration.
COCODump ==
  /\ ImageLeft
  /\ kind = "COCO"
  /\ w = 2
  /\ fs' = save(fs, "COCO", "", "annotations", "json")
  /\ json' = data
  /\ n' = n + 1
  /\ w' = 0
  /\ UNCHANGED << labelFiles, png, clock, prev,
                  masks, segmentations, rasters, xml,
                  output_dir, pc, kind, imageList, annotations,
                  AnnotationType, classes, data, result,
                  prevClasses, fsAtCall >>

-----------------------------------------------------------------------------
(* End of the call, and the same call issued again *)

\* The loop over imageList is exhausted and the slot falls off its end.
Return ==
  /\ pc = "images"
  /\ n > Len(imageList)
  /\ result' = "None"
  /\ pc' = "done"
  /\ UNCHANGED << labelFiles, png, clock, prev,
                  masks, segmentations, rasters, xml,
                  output_dir, fs, kind, imageList, annotations,
                  AnnotationType, classes, n, w, data, json,
                  prevClasses, fsAtCall >>

\* The user triggers the same export again, with the same answers, on the
\* unchanged dataset.  Every local starts afresh; what is on disk stays and
\* now counts as pre-existing.
Rerun ==
  /\ pc = "done"
  /\ imageList # <<>>
  /\ prevClasses' = IF classes # <<>> THEN classes ELSE prevClasses
  /\ fs' = { [e EXCEPT !.old = TRUE] : e \in fs }
  /\ fsAtCall' = fs'
  /\ pc' = "getAllAnnotations"
  /\ annotations' = NoAnnotations
  /\ AnnotationType' = ""
  /\ classes' = <<>>
  /\ n' = 0
  /\ w' = 0
  /\ data' = NoData
  /\ result' = "running"
  /\ masks' = <<>>
  /\ segmentations' = <<>>
  /\ rasters' = NoRasters
  /\ clock' = 1
  /\ prev' = [result |-> result, json |-> json, png |-> png]
  /\ UNCHANGED << labelFiles, output_dir, kind, imageList, json, xml, png >>

Next ==
  \/ onExportPixelMap
  \/ onExportVOC
  \/ onExportCOCO
  \/ getAllAnnotations
  \/ PixelMapSelect
  \/ COCOSelect
  \/ VOCSelect
  \/ RegistryStep
  \/ PixelMapResetDir
  \/ VOCResetDir
  \/ COCOResetDir
  \/ PixelMapImage
  \/ exportDetectionVOC
  \/ exportSegmentationVOC
  \/ VOCNoMode
  \/ DetectionImage
  \/ SegmentationImage
  \/ COCOImage
  \/ COCOVisualization
  \/ COCODump
  \/ Return
  \/ Rerun

Spec == Init /\ [][Next]_vars

\* The same exports, on the datasets of one rectangle with any corners.
SpecRectangles == InitRectangles /\ [][Next]_vars

\* The same exports, on the datasets of the car rectangle.
SpecCar == InitCar /\ [][Next]_vars

\* The same exports, on the datasets that hold a line or a point.
SpecThin == InitThin /\ [][Next]_vars

-----------------------------------------------------------------------------
(* Properties *)

Seeds == {"__ignore__", "_background_"}

\* The registry exists: the build has started in this call.
HasRegistry == classes # <<>>

\* Number of annotations the registry loop has consumed.
Scanned == IF pc = "registry" THEN n - 1 ELSE Len(annotations.items)

\* Annotation p introduces a label that is no seed and was not met before.
FirstSeen(items, p) ==
  /\ items[p].label \notin Seeds
  /\ \A q \in 1..(p - 1) : items[q].label # items[p].label

\* How many labels were introduced by the first p annotations.
Rank(items, p) == Cardinality({ q \in 1..p : FirstSeen(items, q) })

IsPrefix(s, t) ==
  Len(s) <= Len(t) /\ \A k \in 1..Len(s) : s[k] = t[k]

SeedsInPlace(cls) ==
  /\ Len(cls) >= 2
  /\ cls[1] = [name |-> "__ignore__", id |-> -1]
  /\ cls[2] = [name |-> "_background_", id |-> 0]

\* C1: in every export the registry starts as {__ignore__: -1,
\* _background_: 0} and the k-th distinct non-seed label met in scan order
\* holds id k, at position k after the two seeds, so that ids are distinct
\* and contiguous.
C1_RegistryIds ==
  HasRegistry =>
    LET items == annotations.items
    IN  /\ SeedsInPlace(classes)
        /\ Len(classes) = 2 + Rank(items, Scanned)
        /\ \A p \in 1..Scanned :
             FirstSeen(items, p) =>
               classes[2 + Rank(items, p)]
                 = [name |-> items[p].label, id |-> Rank(items, p)]

\* Two labels were introduced by a finished COCO export.
C1_Witness ==
  /\ pc = "done"
  /\ kind = "COCO"
  /\ result = "None"
  /\ Len(classes) = 4

\* C2: a step of the registry build never changes an entry already in the
\* registry, and __ignore__ and _background_ stay first and second with ids
\* -1 and 0, whatever labels the annotations carry.
C2_IdsStable ==
  [][ classes' # <<>> =>
        /\ SeedsInPlace(classes')
        /\ classes # <<>> => IsPrefix(classes, classes') ]_vars

\* The scan has passed an annotation labelled __ignore__ and then a new label.
C2_Witness ==
  /\ pc = "registry"
  /\ n = 3
  /\ annotations.items[1].label = "__ignore__"
  /\ annotations.items[2].label = "car"
  /\ Len(classes) = 3

Shapes == { annotations.items[k].shape_type : k \in 1..Len(annotations.items) }

ShapeSeq ==
  [k \in 1..Len(annotations.items) |-> annotations.items[k].shape_type]

\* onExportVOC has chosen its mode (the registry is seeded in the same step).
VOCSelected == kind = "VOC" /\ HasRegistry

\* An entry of format fmt made by the current call exists in one of subs.
MadeIn(fmt, subs) ==
  \E e \in fs : e.fmt = fmt /\ ~e.old /\ e.sub \in subs

DetectionOnly == SubDirs(DetectionArtifacts) \ SubDirs(SegmentationArtifacts)
SegmentationOnly == SubDirs(SegmentationArtifacts) \ SubDirs(DetectionArtifacts)

\* C4: onExportVOC selects detection exactly when every annotation of the
\* scope is a rectangle, and otherwise segmentation exactly when some
\* annotation is a polygon; [rectangle, rectangle] gives detection and
\* [rectangle, polygon] segmentation; the detection encoder makes nothing for
\* a scope that holds a shape other than a rectangle.
C4_VOCMode ==
  VOCSelected =>
    /\ (AnnotationType = "bbox_detection") <=> (Shapes \subseteq {"rectangle"})
    /\ ~(Shapes \subseteq {"rectangle"}) =>
         ((AnnotationType = "segmenation") <=> ("polygon" \in Shapes))
    /\ ShapeSeq = <<"rectangle", "rectangle">> =>
         AnnotationType = "bbox_detection"
    /\ ShapeSeq = <<"rectangle", "polygon">> =>
         AnnotationType = "segmenation"
    /\ MadeIn("VOC", DetectionOnly) => Shapes \subseteq {"rectangle"}
    /\ MadeIn("VOC", SegmentationOnly) => "polygon" \in Shapes

\* A VOC export of [rectangle, polygon] has finished in segmentation mode.
C4_Witness ==
  /\ kind = "VOC"
  /\ pc = "done"
  /\ result = "None"
  /\ ShapeSeq = <<"rectangle", "polygon">>
  /\ MadeIn("VOC", SegmentationOnly)

\* The results that tell the caller the export failed.
FailureResults == {"False", "TypeError", "ValueError"}

\* The scope has no VOC export path.
NoVOCPath ==
  /\ ~(Shapes \subseteq {"rectangle"})
  /\ "polygon" \notin Shapes

\* C5: a VOC export whose scope is neither all rectangles nor holds a polygon
\* ends with an explicit failure result, without either encoder having run
\* and without any output directory having been created.
C5_VOCRefused ==
  (VOCSelected /\ NoVOCPath /\ pc = "done") =>
    /\ result \in FailureResults
    /\ \A e \in fs : e.fmt = "VOC" => e.old

\* The export scope was read and every annotation in it is a rectangle.
RectanglesOnly ==
  /\ output_dir # NoDir
  /\ ~annotations.failed
  /\ pc \notin {"idle", "getAllAnnotations", "select"}
  /\ \A k \in 1..Len(annotations.items) :
       annotations.items[k].shape_type = "rectangle"

\* C6: onExportCOCO and onExportPixelMap return False, having built no
\* registry and made or removed nothing, whenever every annotation of the
\* scope is a rectangle.
C6_MaskExportsRefuse ==
  (kind \in {"COCO", "PixelMap"} /\ RectanglesOnly) =>
    /\ pc = "done"
    /\ result = "False"
    /\ ~HasRegistry
    /\ fs = fsAtCall
    /\ data = NoData

\* A COCO export of a scope of rectangles has returned.
C6_Witness ==
  /\ kind = "COCO"
  /\ RectanglesOnly
  /\ Len(annotations.items) = 2
  /\ pc = "done"

\* An entry of the called format's subtree that the call made / that it found.
MadeByCall == \E e \in fs : e.fmt = kind /\ ~e.old
FoundByCall == \E e \in fs : e.fmt = kind /\ e.old

\* The export ran to its end.
Completed == pc = "done" /\ result = "None" /\ HasRegistry

\* C7: once the call has made anything in the subtree of its format, nothing
\* the call found there is left, and after a completed export the subtree
\* holds only what the call made.
C7_FreshSubtree ==
  /\ MadeByCall => ~FoundByCall
  /\ Completed => ~FoundByCall

\* A completed export into an output root that held a subtree of its format.
C7_Witness ==
  /\ Completed
  /\ \E e \in fsAtCall : e.fmt = kind
  /\ \E e \in fs : e.fmt = kind /\ ~e.old /\ e.ext # "dir"
  /\ \E e \in fs : e.fmt # kind /\ e.old

\* The label file of some image of the export scope cannot be read.
UnreadableInScope ==
  \E k \in 1..Len(imageList) : ~labelFiles[imageList[k]].readable

\* C8: when the label file of an image of the scope cannot be read, the call
\* ends right after the registry pass by raising, with the output root as the
\* call found it: nothing removed, no directory made, no artifact written.
C8_AbortOnUnreadable ==
  UnreadableInScope =>
    /\ fs = fsAtCall
    /\ ~HasRegistry
    /\ \/ pc \in {"getAllAnnotations", "select"}
       \/ pc = "done" /\ result = "TypeError"

\* Such a call has ended, in an output root that held earlier exports.
C8_Witness ==
  /\ UnreadableInScope
  /\ pc = "done"
  /\ Len(imageList) = 2
  /\ labelFiles[imageList[1]].readable
  /\ fs # {}

\* The files an exporter writes under its subtree for one image.
ArtifactsOf ==
  IF kind = "PixelMap" THEN { File("", "png") }
  ELSE IF kind = "COCO"
  THEN { File("JPEGImages", "jpg"), File("Visualization", "jpg") }
  ELSE IF AnnotationType = "bbox_detection"
  THEN { DetectionArtifacts[k] : k \in 1..Len(DetectionArtifacts) }
  ELSE { SegmentationArtifacts[k] : k \in 1..Len(SegmentationArtifacts) }

\* The call has written a file of the i-th image of the scope.
Started(i) ==
  \E a \in ArtifactsOf : Entry(kind, a.sub, imageList[i], a.ext, FALSE) \in fs

\* The call has written every file of the i-th image of the scope, and for
\* COCO the document on disk covers it.
Finished(i) ==
  /\ \A a \in ArtifactsOf : Entry(kind, a.sub, imageList[i], a.ext, FALSE) \in fs
  /\ kind = "COCO" =>
       /\ Entry("COCO", "", "annotations", "json", FALSE) \in fs
       /\ Len(json.images) >= i
       /\ json.images[i].file_name = imageList[i]

\* C9: the images of the scope are exported one at a time in list order: no
\* file of an image is written before every file of the images before it.
C9_Sequential ==
  \A j \in 1..Len(imageList) :
    Started(j) => \A i \in 1..(j - 1) : Finished(i)

\* The second image of a VOC segmentation export is partly written.
C9_Witness ==
  /\ kind = "VOC"
  /\ AnnotationType = "segmenation"
  /\ Len(imageList) = 2
  /\ Started(2)
  /\ ~Finished(2)

\* C10: when a COCO export completes, data["images"] holds one entry per
\* image of the scope, in list order, the entry at position i with id i, and
\* the image_id of every annotation is the position of the image whose label
\* file holds the annotation's instance; this is the document on disk.
C10_ImageIds ==
  (kind = "COCO" /\ Completed) =>
    /\ Len(data.images) = Len(imageList)
    /\ \A k \in 1..Len(imageList) :
         data.images[k] = [id |-> k - 1, file_name |-> imageList[k]]
    /\ \A j \in 1..Len(data.annotations) :
         LET a == data.annotations[j]
         IN  /\ a.image_id \in 0..(Len(imageList) - 1)
             /\ imageList[a.image_id + 1] = a.imagename
             /\ \E x \in 1..Len(labelFiles[a.imagename].annotations) :
                  LET shape == labelFiles[a.imagename].annotations[x]
                  IN  /\ shape.label = a.instance.label
                      /\ shape.group_id = a.instance.group_id
    /\ json = data

\* A COCO export of two images, each with an annotation, has completed.
C10_Witness ==
  /\ kind = "COCO"
  /\ Completed
  /\ Len(imageList) = 2
  /\ \E j \in 1..Len(data.annotations) : data.annotations[j].image_id = 1
  /\ \E j \in 1..Len(data.annotations) : data.annotations[j].image_id = 0

\* The ids of a list of COCO annotations are the positions in the list,
\* counted from 0 as the document does.
IdsArePositions(list) == \A j \in 1..Len(list) : list[j].id = j - 1

\* C11: at every point of a COCO export, and in the document on disk, the
\* annotation at (0-based) position j of the annotations list has id j, so
\* the ids are unique in the document and do not restart at an image boundary.
C11_AnnotationIds ==
  /\ IdsArePositions(data.annotations)
  /\ IdsArePositions(json.annotations)
  /\ \A i, j \in 1..Len(data.annotations) :
       data.annotations[i].id = data.annotations[j].id => i = j

\* The document on disk holds annotations of the first and of the second image.
C11_Witness ==
  /\ kind = "COCO"
  /\ Len(json.annotations) >= 2
  /\ json.annotations[1].image_id = 0
  /\ json.annotations[Len(json.annotations)].image_id = 1

\* The categories the registry stands for: every label but __ignore__, with
\* its registry id.
ExpectedCategories ==
  [k \in 1..Len(class_names(classes)) |->
     [id |-> lookup(classes, class_names(classes)[k]),
      name |-> class_names(classes)[k]]]

\* C12: the categories section of the document written by a completed COCO
\* export lists every label of the registry except __ignore__, _background_
\* with id 0 included, each with its registry id.
C12_Categories ==
  (kind = "COCO" /\ Completed) =>
    /\ json.categories = ExpectedCategories
    /\ [id |-> 0, name |-> "_background_"]
         \in { json.categories[k] : k \in 1..Len(json.categories) }

\* The registry holds label with id.
Registered(label, id) ==
  \E k \in 1..Len(classes) : classes[k] = [name |-> label, id |-> id]

\* No entry of a list of COCO annotations stands for the ignore class.
NoneIgnored(list) ==
  \A j \in 1..Len(list) :
    list[j].instance.label # "__ignore__" /\ list[j].category_id # -1

\* C13: every annotation of the COCO document carries as category_id the
\* registry id of its instance's label, and no annotation is emitted for an
\* instance labelled __ignore__: no category_id is -1.
C13_CategoryIds ==
  /\ NoneIgnored(data.annotations)
  /\ NoneIgnored(json.annotations)
  /\ \A j \in 1..Len(data.annotations) :
       Registered(data.annotations[j].instance.label,
                  data.annotations[j].category_id)

\* A COCO export has completed on an image that holds an __ignore__ shape
\* next to a shape of a class.
C13_Witness ==
  /\ kind = "COCO"
  /\ Completed
  /\ Len(json.annotations) = 1
  /\ \E x \in 1..Len(labelFiles[imageList[1]].annotations) :
       labelFiles[imageList[1]].annotations[x].label = "__ignore__"

\* The instances of the image n of a COCO export have been formed.
InstancesFormed == kind = "COCO" /\ pc = "images" /\ w \in {1, 2}

\* The (label, group_id) pairs of the shapes that carry a group, and the
\* positions of the shapes that carry none.
GroupedPairs(shapes) ==
  { << shapes[k].label, shapes[k].group_id >> :
      k \in { x \in 1..Len(shapes) : shapes[x].group_id # "None" } }
Ungrouped(shapes) == { k \in 1..Len(shapes) : shapes[k].group_id = "None" }

\* The entries of data["annotations"] that belong to the image at position i.
AnnotationsOfImage(i) ==
  SelectSeq(data.annotations, LAMBDA a : a.image_id = i - 1)

\* C14: within one image of a COCO export the shapes that share a label and
\* a non-null group_id form one instance and every shape without group_id
\* forms its own, so that the instances number the distinct (label, group_id)
\* pairs plus the shapes without group; every instance whose label is not
\* __ignore__ has exactly one annotation.
C14_Instances ==
  InstancesFormed =>
    LET shapes == labelFiles[imageList[n]].annotations
    IN  /\ Len(masks)
             = Cardinality(GroupedPairs(shapes)) + Cardinality(Ungrouped(shapes))
        /\ \A i, j \in 1..Len(masks) : masks[i].key = masks[j].key => i = j
        /\ \A k \in 1..Len(shapes) :
             \E i \in 1..Len(masks) :
               /\ masks[i].key.label = shapes[k].label
               /\ masks[i].key.group_id = shapes[k].group_id
        /\ \A i \in 1..Len(masks) :
             Len(SelectSeq(AnnotationsOfImage(n),
                           LAMBDA a : a.instance = masks[i].key))
               = IF masks[i].key.label = "__ignore__" THEN 0 ELSE 1
        /\ Len(AnnotationsOfImage(n))
             = Len(SelectSeq(masks, LAMBDA m : m.key.label # "__ignore__"))

\* Two shapes of one label and one group have formed a single instance with a
\* single annotation.
C14_Witness ==
  /\ InstancesFormed
  /\ Len(labelFiles[imageList[n]].annotations) = 2
  /\ GroupedPairs(labelFiles[imageList[n]].annotations) = { << "car", "7" >> }
  /\ Ungrouped(labelFiles[imageList[n]].annotations) = {}
  /\ Len(masks) = 1
  /\ Len(AnnotationsOfImage(n)) = 1

\* Two shapes without group, equal in label and geometry, have formed two
\* instances.
C14_WitnessUngrouped ==
  /\ InstancesFormed
  /\ Len(labelFiles[imageList[n]].annotations) = 2
  /\ labelFiles[imageList[n]].annotations[1]
       = labelFiles[imageList[n]].annotations[2]
  /\ Ungrouped(labelFiles[imageList[n]].annotations) = {1, 2}
  /\ Len(masks) = 2

\* The mask of the shape at position k of the image x.
ShapeMask(x, k) ==
  shape_to_mask(labelFiles[x].shape, labelFiles[x].annotations[k].points,
                labelFiles[x].annotations[k].shape_type)

\* The pixels of image x that a shape labelled __ignore__ covers.
IgnoredPixels(x) ==
  UNION { ShapeMask(x, k) :
            k \in { y \in 1..Len(labelFiles[x].annotations) :
                      labelFiles[x].annotations[y].label = "__ignore__" } }

\* The positions of the shapes of image x that make up the instance.
ShapesOf(x, instance) ==
  { k \in 1..Len(labelFiles[x].annotations) :
      /\ labelFiles[x].annotations[k].label = instance.label
      /\ labelFiles[x].annotations[k].group_id = instance.group_id
      /\ instance.group_id = "None" => instance.uuid.seq = k }

\* C15: the mask of every instance a COCO export has described (the mask its
\* area and bbox are taken from) is the pixel-wise OR of the masks of the
\* instance's shapes minus every pixel that an __ignore__ shape of the image
\* covers.
C15_InstanceMask ==
  \A j \in 1..Len(data.annotations) :
    LET a == data.annotations[j]
    IN  /\ a.mask = UNION { ShapeMask(a.imagename, k) :
                             k \in ShapesOf(a.imagename, a.instance) }
                      \ IgnoredPixels(a.imagename)
        /\ a.area = Cardinality(a.mask)

\* The loop of a pixel-map or segmentation export holds the rasters of an
\* image.
RastersHeld == rasters.imagename # ""

\* The positions of the shapes of image x that cover the pixel.
Covering(x, px) ==
  { k \in 1..Len(labelFiles[x].annotations) : px \in ShapeMask(x, k) }

\* C16: in the class raster of a pixel-map or segmentation export every pixel
\* that an __ignore__ shape covers holds -1, whether or not another shape,
\* earlier or later in the list, covers it too, and the instance raster holds
\* 0 there.
C16_IgnoreWins ==
  RastersHeld =>
    \A px \in IgnoredPixels(rasters.imagename) :
      rasters.cls[px] = -1 /\ rasters.ins[px] = 0

\* C17: the class raster of a pixel-map export holds, at every pixel that
\* shapes of classes cover, the registry id of the last shape in stored order
\* that covers it, and 0 at every pixel no shape covers.
C17_LastShapeWins ==
  (kind = "PixelMap" /\ RastersHeld) =>
    LET x == rasters.imagename
    IN  /\ DOMAIN rasters.cls = Pixels(labelFiles[x].shape)
        /\ \A px \in Pixels(labelFiles[x].shape) :
             IF Covering(x, px) = {} THEN rasters.cls[px] = 0
             ELSE px \notin IgnoredPixels(x) =>
                    Registered(
                      labelFiles[x].annotations[Greatest(Covering(x, px))].label,
                      rasters.cls[px])

\* A pixel map was made of an image on which a dog polygon is stored after a
\* car polygon that it overlaps: the shared pixel holds the id of dog, and
\* some pixel is covered by neither.
C17_Witness ==
  /\ kind = "PixelMap"
  /\ RastersHeld
  /\ \E px \in DOMAIN rasters.cls :
       /\ Covering(rasters.imagename, px) = {1, 2}
       /\ labelFiles[rasters.imagename].annotations[1].label = "car"
       /\ labelFiles[rasters.imagename].annotations[2].label = "dog"
       /\ rasters.cls[px] = 2
  /\ \E px \in DOMAIN rasters.cls : Covering(rasters.imagename, px) = {}

\* The document on disk of the image x, if one was written.
HasDocument(x) == \E i \in 1..Len(xml) : xml[i].filename = x
DocumentOf(x) == xml[CHOOSE i \in 1..Len(xml) : xml[i].filename = x]

\* C20: the XML document that a VOC detection export has written for an image
\* holds exactly one object per annotation of the image, in stored order,
\* each named with the label of its annotation.
C20_ObjectPerAnnotation ==
  \A x \in Images :
    HasDocument(x) =>
      LET objects == DocumentOf(x).objects
          shapes == labelFiles[x].annotations
      IN  /\ Len(objects) = Len(shapes)
          /\ \A k \in 1..Len(shapes) : objects[k].name = shapes[k].label

\* A detection export has written the document of an image that holds two
\* rectangles of the same label.
C20_Witness ==
  /\ kind = "VOC"
  /\ AnnotationType = "bbox_detection"
  /\ \E x \in Images :
       /\ HasDocument(x)
       /\ Len(labelFiles[x].annotations) = 2
       /\ labelFiles[x].annotations[1].label = labelFiles[x].annotations[2].label
       /\ Len(DocumentOf(x).objects) = 2

\* The smaller and the larger of two numbers.
Lo(u, v) == IF u < v THEN u ELSE v
Hi(u, v) == IF u < v THEN v ELSE u

\* The 8 numbers that stand for the rectangle between two corners.
CornersPolygon(p) ==
  << Lo(p[1][1], p[2][1]), Lo(p[1][2], p[2][2]),
     Hi(p[1][1], p[2][1]), Lo(p[1][2], p[2][2]),
     Hi(p[1][1], p[2][1]), Hi(p[1][2], p[2][2]),
     Lo(p[1][1], p[2][1]), Hi(p[1][2], p[2][2]) >>

\* The shapes of the instance an entry of data["annotations"] stands for, in
\* stored order.
ShapesInOrder(a) ==
  LET K == ShapesOf(a.imagename, a.instance)
      nth(i) == CHOOSE k \in K : Cardinality({ q \in K : q < k }) = i - 1
  IN  [i \in 1..Cardinality(K) |-> labelFiles[a.imagename].annotations[nth(i)]]

\* The segmentation of every entry of the list holds, for every rectangle of
\* its instance, the polygon of the rectangle's sorted corners.
RectanglesAsPolygons(list) ==
  \A j \in 1..Len(list) :
    /\ Len(list[j].segmentation) = Len(ShapesInOrder(list[j]))
    /\ \A i \in 1..Len(list[j].segmentation) :
         ShapesInOrder(list[j])[i].shape_type = "rectangle" =>
           list[j].segmentation[i]
             = CornersPolygon(ShapesInOrder(list[j])[i].points)

\* C18: in a COCO export a rectangle with corners (xa,ya), (xb,yb) adds to
\* the segmentation of its instance the 8 numbers [x1,y1,x2,y1,x2,y2,x1,y2],
\* x1 = min(xa,xb), x2 = max(xa,xb), y1 = min(ya,yb), y2 = max(ya,yb), in
\* whichever order the corners are stored.
C18_RectanglePolygon ==
  /\ RectanglesAsPolygons(data.annotations)
  /\ (kind = "COCO" /\ Completed) => RectanglesAsPolygons(json.annotations)

\* The document of a completed COCO export describes a rectangle stored with
\* corners (50,10), (10,50): reversed on the x axis only.
C18_Witness ==
  /\ kind = "COCO"
  /\ Completed
  /\ \E j \in 1..Len(json.annotations) :
       /\ ShapesInOrder(json.annotations[j])[1].shape_type = "rectangle"
       /\ ShapesInOrder(json.annotations[j])[1].points
            = << <<50, 10>>, <<10, 50>> >>
       /\ json.annotations[j].segmentation
            = << <<10, 10, 50, 10, 50, 50, 10, 50>> >>

\* The numbers a document may hold, and the number a text stands for.
CoordValues == Coords \cup (0..ImgSize)
Number(text) == CHOOSE v \in CoordValues : ToString(v) = text

\* The object at position k of the document of image x has the bndbox of
\* the unordered pair of corners of the annotation at position k.
SortedBndbox(x, k) ==
  LET box == DocumentOf(x).objects[k].bndbox
      p == labelFiles[x].annotations[k].points
  IN  /\ Number(box.xmin) = Lo(p[1][1], p[2][1])
      /\ Number(box.xmax) = Hi(p[1][1], p[2][1])
      /\ Number(box.ymin) = Lo(p[1][2], p[2][2])
      /\ Number(box.ymax) = Hi(p[1][2], p[2][2])
      /\ Number(box.xmin) <= Number(box.xmax)
      /\ Number(box.ymin) <= Number(box.ymax)
      /\ { p[1], p[2] } = { <<10, 10>>, <<50, 50>> } =>
           box = [xmin |-> "10", ymin |-> "10", xmax |-> "50", ymax |-> "50"]

\* C19: the bndbox a VOC detection export writes for a rectangle depends on
\* the corners only through the smaller and the larger coordinate on each
\* axis, so that swapping the corners on an axis changes nothing: (50,50),
\* (10,10) and (10,10), (50,50) both give xmin=10, ymin=10, xmax=50, ymax=50,
\* and every bndbox has xmin <= xmax and ymin <= ymax.
C19_BndboxSorted ==
  \A x \in Images :
    HasDocument(x) =>
      \A k \in 1..Len(DocumentOf(x).objects) : SortedBndbox(x, k)

\* The document of a rectangle stored as (50,50), (10,10) is on disk.
C19_Witness ==
  /\ kind = "VOC"
  /\ HasDocument("a")
  /\ labelFiles["a"].annotations[1].points = << <<50, 50>>, <<10, 10>> >>
  /\ DocumentOf("a").objects[1].bndbox
       = [xmin |-> "10", ymin |-> "10", xmax |-> "50", ymax |-> "50"]

\* The registry of a dataset whose only label is car.
CarRegistry ==
  << [name |-> "__ignore__", id |-> -1], [name |-> "_background_", id |-> 0],
     [name |-> "car", id |-> 1] >>

\* C21: a COCO export whose scope is the one image of 100 x 100 pixels with
\* the single rectangle labelled car, corners (10,10), (50,50), builds the
\* registry {__ignore__: -1, _background_: 0, car: 1} and emits one
\* annotation, with bbox [10,10,40,40] and area 1600.
C21_CarRectangle ==
  (kind = "COCO" /\ imageList = << "a" >> /\ pc = "done"
     /\ output_dir # NoDir) =>
    /\ classes = CarRegistry
    /\ Len(json.annotations) = 1
    /\ json.annotations[1].bbox = << 10, 10, 40, 40 >>
    /\ json.annotations[1].area = 1600

\* The positions of the shapes of image x that are a line or a point.
Thin(x) ==
  { k \in 1..Len(labelFiles[x].annotations) :
      labelFiles[x].annotations[k].shape_type \in {"line", "point"} }

\* No key of the dict stands for a line or a point of image x.
NoThinKey(d, x) ==
  \A i \in 1..Len(d) : ShapesOf(x, d[i].key) \cap Thin(x) = {}

\* C22: in a COCO export a shape of type line or point is skipped: it forms
\* no instance, adds no entry to masks or segmentations and no pixel to a
\* mask, and no annotation stands for it.
C22_ThinShapesSkipped ==
  /\ InstancesFormed =>
       /\ NoThinKey(masks, imageList[n])
       /\ NoThinKey(segmentations, imageList[n])
  /\ \A j \in 1..Len(data.annotations) :
       ShapesOf(data.annotations[j].imagename, data.annotations[j].instance)
         \cap Thin(data.annotations[j].imagename) = {}

\* What a COCO document holds apart from the instance keys.
Structure(doc) ==
  [images |-> doc.images,
   annotations |->
     [j \in 1..Len(doc.annotations) |->
        [id |-> doc.annotations[j].id,
         image_id |-> doc.annotations[j].image_id,
         category_id |-> doc.annotations[j].category_id,
         segmentation |-> doc.annotations[j].segmentation,
         area |-> doc.annotations[j].area,
         bbox |-> doc.annotations[j].bbox]]]

\* The call is a repetition of a completed call and has completed as well.
Repeated == Completed /\ clock = 1 /\ prev.result = "None"

\* C23: a completed export repeated on the same dataset leaves the same label
\* images (PixelMap) and a COCO document with the same images and the same
\* annotations in the same order (ids, image ids, category ids,
\* segmentations), although the keys of ungrouped instances are fresh.
C23_SameOutputs ==
  Repeated =>
    /\ kind = "PixelMap" => png = prev.png
    /\ kind = "COCO" => Structure(json) = Structure(prev.json)

C23_Witness ==
  /\ Repeated
  /\ kind = "COCO"
  /\ Len(json.annotations) >= 2
  /\ \E j \in 1..Len(json.annotations) :
       /\ json.annotations[j].instance.group_id = "None"
       /\ json.annotations[j].instance # prev.json.annotations[j].instance
       /\ json.annotations[j].image_id = json.annotations[1].image_id
       /\ j > 1

C23_WitnessPixelMap ==
  /\ Repeated
  /\ kind = "PixelMap"
  /\ Len(png) = 2
  /\ \E px \in DOMAIN png[1].cls : png[1].cls[px] > 0

\* What the tree holds outside the subtree of a format.
Outside(tree, fmt) == { e \in tree : e.fmt # fmt }

\* C24: at every point of an export the output root holds, outside the
\* subtree of the format being exported, exactly what it held when the call
\* began: nothing there is removed and nothing is written there.
C24_OtherFormatsKept ==
  kind # "" => Outside(fs, kind) = Outside(fsAtCall, kind)

C24_Witness ==
  /\ Completed
  /\ MadeByCall
  /\ ~FoundByCall
  /\ \E e \in fsAtCall : e.fmt = kind
  /\ Outside(fs, kind) # {}

\* C25: a VOC export whose scope is neither all rectangles nor holds a polygon
\* leaves the VOC subtree it found exactly as it was.
C25_RefusedVOCKept ==
  (VOCSelected /\ NoVOCPath) =>
    { e \in fs : e.fmt = "VOC" } = { e \in fsAtCall : e.fmt = "VOC" }

\* onExportPixelMap or onExportCOCO has returned False.
ReturnedFalse ==
  kind \in {"PixelMap", "COCO"} /\ pc = "done" /\ result = "False"

\* C26: when onExportPixelMap or onExportCOCO returns False, for want of an
\* output directory or because the scope holds rectangles only, the output
\* root and the files in it are what they were when the call began.
C26_RefusalKeepsRoot ==
  ReturnedFalse =>
    /\ fs = fsAtCall
    /\ png = prev.png
    /\ json = prev.json

\* A PixelMap export of rectangles is refused over the PixelMap subtree of an
\* earlier export.
C26_Witness ==
  /\ ReturnedFalse
  /\ kind = "PixelMap"
  /\ output_dir # NoDir
  /\ Len(annotations.items) > 0
  /\ \E e \in fs : e.fmt = "PixelMap"

\* An export returns early for want of an output directory.
C26_WitnessNoDir == ReturnedFalse /\ output_dir = NoDir

\* onExportCOCO has ended on a scope whose label files were all read and whose
\* annotations are not all rectangles.
COCOEnded ==
  /\ kind = "COCO"
  /\ pc = "done"
  /\ output_dir # NoDir
  /\ ~annotations.failed
  /\ ~AllRectangles(annotations.items)

\* C27: a COCO export of readable files that is not refused runs to
\* completion and annotations.json holds an images entry for every image of
\* the scope, images without a retained instance included.
C27_COCOCompletes ==
  COCOEnded =>
    /\ result = "None"
    /\ Len(json.images) = Len(imageList)
    /\ \A i \in 1..Len(imageList) : json.images[i].file_name = imageList[i]

\* The labels the per-image pass looks up for image x: those of its shapes.
LookedUp(x) ==
  { labelFiles[x].annotations[k].label :
      k \in 1..Len(labelFiles[x].annotations) }

\* C28: throughout the per-image pass of every exporter the registry holds
\* each label of each image of the scope, so classes[class_name] never fails.
C28_LookupsSucceed ==
  pc = "images" =>
    \A i \in 1..Len(imageList) :
      \A label \in LookedUp(imageList[i]) : InList(label, keys(classes))

\* The pass is at a second image that brings a label the first did not have.
C28_Witness ==
  /\ ImageLeft
  /\ n = 2
  /\ \E label \in LookedUp(imageList[2]) \ LookedUp(imageList[1]) :
       label \notin Seeds

\* The export scope was read and holds no annotation at all.
EmptyScope ==
  /\ output_dir # NoDir
  /\ ~annotations.failed
  /\ annotations.items = <<>>
  /\ pc \notin {"idle", "getAllAnnotations", "select"}

\* C29: on a scope without annotations the test "every annotation is a
\* rectangle" holds vacuously: onExportVOC selects detection, removes the VOC
\* subtree it found and runs the detection encoder, and onExportPixelMap and
\* onExportCOCO return False.
C29_EmptyScope ==
  EmptyScope =>
    /\ kind = "VOC" =>
         /\ AnnotationType = "bbox_detection"
         /\ pc # "registry" => \A e \in fs : e.fmt = "VOC" => ~e.old
         /\ pc = "done" =>
              /\ result = "None"
              /\ MadeIn("VOC", DetectionOnly)
              /\ ~MadeIn("VOC", SegmentationOnly)
    /\ kind \in {"PixelMap", "COCO"} => pc = "done" /\ result = "False"

\* A VOC export of a scope without annotations has ended over the VOC
\* subtree of an earlier export.
C29_Witness ==
  /\ EmptyScope
  /\ kind = "VOC"
  /\ pc = "done"
  /\ \E e \in fsAtCall : e.fmt = "VOC"

\* A COCO export of a scope without annotations has ended.
C29_WitnessCOCO == EmptyScope /\ kind = "COCO" /\ pc = "done"

\* The per-image pass of onExportCOCO is under way or has ended; the images
\* before position n have been processed.
COCOPass == kind = "COCO" /\ HasRegistry /\ pc \in {"images", "done"}

\* C30: at every point of the per-image pass of onExportCOCO, and after it
\* has ended or aborted, annotations.json holds the images entries of the
\* images processed so far, in order, and exactly the annotations made for
\* them; after an abort at an image it covers a strict prefix of the scope.
C30_DocumentIsPrefix ==
  COCOPass =>
    /\ json.images = [i \in 1..(n - 1) |->
                        [id |-> i - 1, file_name |-> imageList[i]]]
    /\ json.annotations =
         SelectSeq(data.annotations, LAMBDA a : a.image_id < n - 1)
    /\ \A i \in 1..(n - 1) :
         \E j \in 1..Len(json.annotations) :
           json.annotations[j].imagename = imageList[i]
    /\ result = "ValueError" =>
         /\ n <= Len(imageList)
         /\ Len(json.images) < Len(imageList)

\* The export aborted at the second image; the document covers the first.
C30_Witness ==
  /\ COCOPass
  /\ result = "ValueError"
  /\ n = 2
  /\ Len(json.images) = 1
  /\ Len(json.annotations) >= 1
  /\ Len(data.images) = 2

=============================================================================
